---- MODULE Spec2Model ----
(***************************************************************************)
(* Authentication core of the BOM agent service (python-agent):            *)
(* AuthChain over ApiKeyProvider, JWTProvider and X402Provider, backed by  *)
(* ApiKeyStore (api_keys table) and ClientStore (clients table).           *)
(*                                                                         *)
(* A request is a process: every action is one segment of                  *)
(* AuthChain.authenticate between two points where other work can run (an  *)
(* awaited HTTP call, or a store call, each of which is its own database   *)
(* transaction).  The tables are one shared database: requests served by   *)
(* different server processes interleave at every store call, requests of  *)
(* one event loop at the awaited calls only.                               *)
(***************************************************************************)
EXTENDS Integers, Sequences, FiniteSets, TLC

VARIABLES
    config,      \* AuthConfig, immutable after start
    clients,     \* rows of the clients table
    api_keys,    \* rows of the api_keys table
    jwks_cache,  \* JWTProvider._jwks_cache: issuers with a cached key set
    req,         \* the requests being authenticated, by slot
    served,      \* number of requests received so far (also the clock)
    next_id,     \* source of fresh client_id / key_id values (uuid4)
    revoked      \* history: raw secrets of keys revoked while they were valid

vars == <<config, clients, api_keys, jwks_cache, req, served, next_id, revoked>>

----------------------------------------------------------------------------
(* Bounds of the model *)

\* requests received in one behaviour
MaxRequests == 2
\* request slots: the requests that can be in flight at the same time
MaxConcurrent == 2
\* rows the api_keys table may hold
MaxKeys == 2

Slots == 1..MaxConcurrent

----------------------------------------------------------------------------
(* Values *)

\* a header that the request does not carry
Absent == "<absent>"

\* Python None for a string-valued column or claim
None == ""

\* Python None / empty string for a wallet address (a sequence of characters)
NoAddr == <<>>

IssAcme == "https://acme.auth/"
IssGlobal == "https://global.auth/"
IssEvil == "https://evil.auth/"
IssHooli == "https://hooli.auth/"
AudAcme == "aud-acme"
AudGlobex == "aud-globex"

\* wallet addresses as sequences of characters
AddrMixed == <<"0", "x", "A", "b">>
AddrLower == <<"0", "x", "a", "b">>
AddrOther == <<"0", "x", "c", "d">>

ClientId(n) == <<"cli_", n>>
KeyId(n) == <<"key_", n>>
AnonymousClientId == <<"anonymous", 0>>

NoSlug == [prefix |-> "", digest |-> <<>>]
NoKeyId == <<"", 0>>

----------------------------------------------------------------------------
(* Pure functions *)

\* str.lower() on one character of the alphabet used by the modelled addresses
LowerChar(c) ==
    CASE c = "A" -> "a"
      [] c = "B" -> "b"
      [] c = "C" -> "c"
      [] c = "D" -> "d"
      [] OTHER -> c

\* str.lower()
LowerNoop(s) == s
Lower(s) == [i \in DOMAIN s |-> LowerChar(s[i])]

\* _hash_key: SHA-256 of the raw secret, a one-way injective digest
HashKey(raw_key) == <<"sha256", raw_key>>

\* hashlib.sha256(wallet_address.encode()).hexdigest()[:12]
WalletHash(wallet_address) == <<"sha256">> \o wallet_address

\* slug = f"x402-{wallet_hash}"
WalletSlug(wallet_address) ==
    [prefix |-> "x402-", digest |-> WalletHash(wallet_address)]

\* ",".join(scopes): the text stored in the scopes column, as a sequence of
\* scope words separated by "," items
RECURSIVE JoinScopes(_)
JoinScopes(scopes) ==
    IF scopes = <<>> THEN <<>>
    ELSE IF Len(scopes) = 1 THEN <<scopes[1]>>
    ELSE <<scopes[1], ",">> \o JoinScopes(Tail(scopes))

\* text.split(",")
RECURSIVE SplitScopes(_)
SplitScopes(text) ==
    IF text = <<>> THEN <<>>
    ELSE IF text[1] = "," THEN SplitScopes(Tail(text))
    ELSE <<text[1]>> \o SplitScopes(Tail(text))

\* row[4].split(",") if row[4] else ["all"]
RowScopes(text) == IF text # <<>> THEN SplitScopes(text) ELSE <<"all">>

----------------------------------------------------------------------------
(* Identity, errors and results *)

\* Python None for a client id
NoClientId == <<"", 0>>

NoIdentity ==
    [client_id |-> NoClientId, auth_method |-> "", scopes |-> <<>>,
     api_key_id |-> NoKeyId, api_key_name |-> "", issuer |-> None,
     wallet_address |-> NoAddr, subject |-> None, email |-> None]

\* a provider (or the chain) has not finished
Pending ==
    [kind |-> "pending", status |-> 0, detail |-> "", headers |-> {},
     identity |-> NoIdentity]

\* authenticate returned None
ReturnedNone ==
    [kind |-> "none", status |-> 0, detail |-> "", headers |-> {},
     identity |-> NoIdentity]

\* raise HTTPException(status_code, detail, headers)
HTTPException(status_code, detail, headers) ==
    [kind |-> "error", status |-> status_code, detail |-> detail,
     headers |-> headers, identity |-> NoIdentity]

\* an exception that is no HTTPException: it leaves authenticate unhandled
\* and the framework answers 500
Unhandled(exception) ==
    [kind |-> "crash", status |-> 500, detail |-> exception, headers |-> {},
     identity |-> NoIdentity]

Returned(identity) ==
    [kind |-> "identity", status |-> 200, detail |-> "", headers |-> {},
     identity |-> identity]

AnonymousIdentity ==
    [NoIdentity EXCEPT !.client_id = AnonymousClientId,
                       !.auth_method = "anonymous",
                       !.scopes = <<"all">>]

\* X402Provider._payment_required_headers
PaymentRequiredHeaders ==
    {<<"X-Payment-Required", "network,recipient,asset,basePrice,perItemPrice">>,
     <<"WWW-Authenticate", "X402">>}

\* the headers of the chain's 402 challenge; the X-Payment-Required value is
\* encode_payment_requirements(config) with item_count 0
ChallengeHeaders ==
    {<<"WWW-Authenticate", "Bearer, ApiKey, X402">>,
     <<"X-Payment-Required", "price,network,recipient,asset,description">>}

InvalidApiKey == HTTPException(401, "Invalid API key", {<<"WWW-Authenticate", "ApiKey">>})
InactiveClient == HTTPException(401, "Client inactive or not found", {})
MissingIssuer == HTTPException(401, "Token missing issuer", {})
UnknownIssuer == HTTPException(401, "Unknown token issuer", {})
JwtClientNotFound == HTTPException(401, "Client not found or inactive", {})
TokenExpired == HTTPException(401, "Token expired", {})
TokenInvalid == HTTPException(401, "Invalid token", {})
PaymentPayloadMalformed == HTTPException(400, "Invalid payment payload", {})
PaymentVerificationFailed ==
    HTTPException(402, "Payment verification failed", PaymentRequiredHeaders)
PaymentSettlementFailed ==
    HTTPException(402, "Payment settlement failed", PaymentRequiredHeaders)
PayerUnknown == HTTPException(400, "Could not determine payer wallet address", {})
PaymentRequired ==
    HTTPException(402, "Payment required. Provide API key, JWT, or x402 payment.",
                  ChallengeHeaders)
AuthenticationRequired ==
    HTTPException(401, "Authentication required",
                  {<<"WWW-Authenticate", "Bearer, ApiKey">>})

----------------------------------------------------------------------------
(* Identity: scope and tenant checks *)

\* the members of a scope list
Words(scopes) == {scopes[i] : i \in DOMAIN scopes}

\* Identity.has_scope
HasScopeExact(identity, scope) == scope \in Words(identity.scopes)
HasScope(identity, scope) ==
    "all" \in Words(identity.scopes) \/ scope \in Words(identity.scopes)

\* Identity.is_admin
IsAdmin(identity) == "admin" \in Words(identity.scopes)

\* Identity.can_access_client
CanAccessClientByScope(identity, target_client_id) ==
    HasScope(identity, "admin") \/ identity.client_id = target_client_id
CanAccessClient(identity, target_client_id) ==
    IsAdmin(identity) \/ identity.client_id = target_client_id

\* Identity.effective_client_id
EffectiveClientIdAsRequested(identity, requested_client_id) ==
    IF IsAdmin(identity) \/ requested_client_id # NoClientId
    THEN requested_client_id
    ELSE identity.client_id
EffectiveClientId(identity, requested_client_id) ==
    IF IsAdmin(identity) THEN requested_client_id ELSE identity.client_id

\* the 403 of require_scope and of require_client
MissingScope == HTTPException(403, "Missing required scope", {})
AccessDenied == HTTPException(403, "Access denied to this client's resources", {})

\* what a route did with the Identity: the dependency it ran, its argument
\* and its answer
NoCheck ==
    [dependency |-> "", scope |-> "", client_id |-> NoClientId,
     response |-> Pending, filter |-> NoClientId,
     item_count |-> 0, encoded |-> <<>>]

----------------------------------------------------------------------------
(* AuthConfig *)

\* AuthConfig.default_audience
DefaultAudience == "bom-agent-api"

\* AuthConfig.allowed_issuers: the issuers of config.oidc_providers
AllowedIssuers == {IssGlobal}

Configs ==
    [api_key_auth_enabled : BOOLEAN, jwt_auth_enabled : BOOLEAN,
     x402_enabled : BOOLEAN, allow_anonymous : BOOLEAN]

\* get_auth_chain: the providers in the order add_provider registers them
ProvidersX402First ==
    (IF config.x402_enabled THEN <<"x402">> ELSE <<>>)
    \o (IF config.api_key_auth_enabled THEN <<"api_key">> ELSE <<>>)
    \o (IF config.jwt_auth_enabled THEN <<"jwt">> ELSE <<>>)
Providers ==
    (IF config.api_key_auth_enabled THEN <<"api_key">> ELSE <<>>)
    \o (IF config.jwt_auth_enabled THEN <<"jwt">> ELSE <<>>)
    \o (IF config.x402_enabled THEN <<"x402">> ELSE <<>>)

ProviderNames == {"api_key", "jwt", "x402"}

----------------------------------------------------------------------------
(* encode_payment_requirements *)

\* decimal.Decimal, non-negative: coef * 10^exp
Dec(coef, exp) == [coef |-> coef, exp |-> exp]

RECURSIVE Pow10(_)
Pow10(k) == IF k = 0 THEN 1 ELSE 10 * Pow10(k - 1)

\* Decimal * int
DecimalTimes(d, n) == Dec(d.coef * n, d.exp)

\* Decimal + Decimal: the operands are aligned to the smaller exponent
DecimalPlus(a, b) ==
    LET exp == IF a.exp < b.exp THEN a.exp ELSE b.exp
    IN Dec(a.coef * Pow10(a.exp - exp) + b.coef * Pow10(b.exp - exp), exp)

DigitChar(d) == <<"0", "1", "2", "3", "4", "5", "6", "7", "8", "9">>[d + 1]

RECURSIVE Digits(_)
Digits(n) == IF n < 10 THEN <<DigitChar(n)>> ELSE Digits(n \div 10) \o <<DigitChar(n % 10)>>

Zeros(k) == [i \in 1..k |-> "0"]

\* Decimal.__str__: plain notation while the exponent is at most 0 and the
\* number has fewer than six leading zeros, scientific notation otherwise
DecimalStr(d) ==
    LET int == Digits(d.coef)
        leftdigits == d.exp + Len(int)
        dotplace == IF d.exp <= 0 /\ leftdigits > -6 THEN leftdigits ELSE 1
        intpart == IF dotplace <= 0 THEN <<"0">>
                   ELSE IF dotplace >= Len(int) THEN int \o Zeros(dotplace - Len(int))
                   ELSE SubSeq(int, 1, dotplace)
        fracpart == IF dotplace <= 0 THEN <<".">> \o Zeros(-dotplace) \o int
                    ELSE IF dotplace >= Len(int) THEN <<>>
                    ELSE <<".">> \o SubSeq(int, dotplace + 1, Len(int))
        e == leftdigits - dotplace
        exp == IF e = 0 THEN <<>>
               ELSE IF e > 0 THEN <<"E", "+">> \o Digits(e)
               ELSE <<"E", "-">> \o Digits(-e)
    IN intpart \o fracpart \o exp

\* json.dumps of a dict of strings, as the text's tokens in insertion order
JsonDumps(items) ==
    <<"{">> \o [i \in 1..(2 * Len(items)) |->
                  IF i % 2 = 1 THEN items[(i + 1) \div 2][1] ELSE items[i \div 2][2]]
          \o <<"}">>

\* json.loads of such a text: the dict
JsonLoads(text) ==
    LET n == (Len(text) - 2) \div 2
    IN [k \in {text[2 * i] : i \in 1..n} |->
           text[1 + 2 * (CHOOSE i \in 1..n : text[2 * i] = k)]]

\* base64.b64encode / base64.b64decode
B64Encode(data) == [b64 |-> data]
B64Decode(text) == text.b64

\* the price of a request with item_count line items
TotalPriceFlat(c, item_count) ==
    DecimalPlus(c.x402_base_price, c.x402_per_item_price)
TotalPrice(c, item_count) ==
    DecimalPlus(c.x402_base_price, DecimalTimes(c.x402_per_item_price, item_count))

EncodePaymentRequirements(c, item_count) ==
    B64Encode(JsonDumps(
        <<<<"price", DecimalStr(TotalPrice(c, item_count))>>,
          <<"network", c.x402_network>>,
          <<"recipient", c.x402_pay_to_address>>,
          <<"asset", "USDC">>,
          <<"description", IF item_count # 0
                           THEN <<"BOM Analysis (", item_count, " items)">>
                           ELSE <<"BOM Analysis">>>>>>))

----------------------------------------------------------------------------
(* ClientStore: every call is one session, one transaction *)

ClientRow(client_id, slug, is_active, oidc_issuer, oidc_audience, wallet_address, ephemeral) ==
    [client_id |-> client_id, slug |-> slug, is_active |-> is_active,
     oidc_issuer |-> oidc_issuer, oidc_audience |-> oidc_audience,
     wallet_address |-> wallet_address, ephemeral |-> ephemeral]

OperatorSlug(name) == [prefix |-> name, digest |-> <<>>]

\* get_client: select where client_id = ?
GetClient(client_id) == {c \in clients : c.client_id = client_id}

\* get_client_by_slug: select where slug = ?  (no is_active filter)
GetClientBySlug(slug) == {c \in clients : c.slug = slug}

\* get_client_by_oidc_issuer: select where oidc_issuer = ? and is_active
GetClientByOidcIssuer(issuer) ==
    {c \in clients : c.oidc_issuer = issuer /\ c.is_active}

\* get_client_by_oidc_audience: select where oidc_audience = ? and is_active
GetClientByOidcAudience(audience) ==
    {c \in clients : c.oidc_audience = audience /\ c.is_active}

\* get_client_by_wallet: select where wallet_address = lower(?) and is_active
GetClientByWallet(wallet_address) ==
    {c \in clients : c.wallet_address = Lower(wallet_address) /\ c.is_active}

\* the unique constraint on clients.slug (and the primary key) at commit
SlugUniqueViolated(row) ==
    \E c \in clients : c.slug = row.slug \/ c.client_id = row.client_id

----------------------------------------------------------------------------
(* ApiKeyStore *)

KeyRow(key_id, hashed_key, client_id, name, scopes_text, last_used, is_active) ==
    [key_id |-> key_id, hashed_key |-> hashed_key, client_id |-> client_id,
     name |-> name, scopes |-> scopes_text, last_used |-> last_used,
     is_active |-> is_active]

\* validate_key's select: where hashed_key = ? and is_active = 1
ValidateKeyIgnoringActive(raw_key) ==
    {k \in api_keys : k.hashed_key = HashKey(raw_key)}
ValidateKeyRows(raw_key) ==
    {k \in api_keys : k.hashed_key = HashKey(raw_key) /\ k.is_active}

\* the UNIQUE constraint on api_keys.hashed_key (and the primary key)
KeyUniqueViolated(row) ==
    \E k \in api_keys : k.hashed_key = row.hashed_key \/ k.key_id = row.key_id

----------------------------------------------------------------------------
(* Requests *)

\* a claim of the token: absent, a string (its words and the whitespace
\* between them), a list of strings, or realm_access, a dict whose "roles"
\* entry is a list or is missing
NoClaim == [present |-> FALSE, type |-> "", value |-> <<>>]
Str(text) == [present |-> TRUE, type |-> "str", value |-> text]
List(items) == [present |-> TRUE, type |-> "list", value |-> items]
Dict(roles) == [present |-> TRUE, type |-> "dict", value |-> roles]

\* the Authorization header: absent, "Bearer <garbage>", or a bearer JWT with
\* its claims and the state of its signature and exp relative to the
\* issuer's key set
NoToken ==
    [form |-> "absent", iss |-> None, aud |-> None, sig |-> "ok",
     scope |-> NoClaim, realm_access |-> NoClaim, scopes |-> NoClaim,
     sub |-> None, email |-> None]
MalformedToken == [NoToken EXCEPT !.form = "malformed"]
Jwt(iss, aud, sig) ==
    [NoToken EXCEPT !.form = "jwt", !.iss = iss, !.aud = aud, !.sig = sig]

\* the X-Payment header: absent, empty, undecodable, or a payload
NoPayment == [form |-> "absent", payer |-> NoAddr]
EmptyPayment == [form |-> "empty", payer |-> NoAddr]
MalformedPayment == [form |-> "malformed", payer |-> NoAddr]
Payment(payer) == [form |-> "payload", payer |-> payer]

Headers(api_key, token, payment) ==
    [api_key |-> api_key, token |-> token, payment |-> payment]

NoHeaders == Headers(Absent, NoToken, NoPayment)

NoVerification == [kind |-> "", valid |-> FALSE, payer |-> NoAddr]

IdleRequest ==
    [pc |-> "idle", hdr |-> NoHeaders, idx |-> 0, errors |-> <<>>,
     result |-> Pending, key |-> {}, client |-> {},
     verification |-> NoVerification, settlement |-> "", wallet |-> NoAddr,
     \* history, read by the properties only
     invoked |-> <<>>, outcome |-> [p \in ProviderNames |-> Pending],
     fac |-> <<>>, lookups |-> 0, fetches |-> 0, created |-> FALSE,
     saw_revoked |-> FALSE, bypass |-> FALSE, check |-> NoCheck]

----------------------------------------------------------------------------
(* AuthChain.authenticate *)

\* can_handle of each provider
CanHandle(name, hdr) ==
    CASE name = "api_key" -> hdr.api_key # Absent
      [] name = "jwt" -> hdr.token.form # "absent"
      [] name = "x402" -> hdr.payment.form # "absent"

\* the first segment of each provider's authenticate
EntryPc(name) ==
    CASE name = "api_key" -> "ak_validate"
      [] name = "jwt" -> "jwt_issuer"
      [] name = "x402" -> "x402_verify"

\* _, last_error = errors[-1]
FirstError(errors) == errors[1].error
LastError(errors) == errors[Len(errors)].error

\* the challenge for a request for which no provider recorded an error
NoCredentialsAlways401 == AuthenticationRequired
NoCredentialsError ==
    IF config.x402_enabled THEN PaymentRequired ELSE AuthenticationRequired

\* after the loop over the providers
Finish(q) ==
    [q EXCEPT !.pc = "done",
              !.result = IF q.errors # <<>> THEN LastError(q.errors)
                         ELSE NoCredentialsError]

\* the loop, from provider i on: stop at the next provider that can handle
\* the request, whose authenticate is then called
RECURSIVE Enter(_, _)
Enter(q, i) ==
    IF i > Len(Providers) THEN Finish(q)
    ELSE IF CanHandle(Providers[i], q.hdr)
         THEN [q EXCEPT !.pc = EntryPc(Providers[i]), !.idx = i,
                        !.invoked = Append(@, Providers[i])]
         ELSE Enter(q, i + 1)

\* identity = await provider.authenticate(request); if identity: return it
OnIdentity(q, identity) ==
    [q EXCEPT !.pc = "done", !.result = Returned(identity),
              !.outcome[Providers[q.idx]] = Returned(identity)]

\* the provider returned None: nothing recorded, next provider
OnNone(q) ==
    Enter([q EXCEPT !.outcome[Providers[q.idx]] = ReturnedNone], q.idx + 1)

\* except HTTPException as e: errors.append((provider.name, e))
OnHTTPException(q, e) ==
    Enter([q EXCEPT !.errors = Append(@, [provider |-> Providers[q.idx], error |-> e]),
                    !.outcome[Providers[q.idx]] = e],
          q.idx + 1)

\* any other exception is not caught by the loop
OnUnhandled(q, exception) ==
    [q EXCEPT !.pc = "done", !.result = Unhandled(exception),
              !.outcome[Providers[q.idx]] = Unhandled(exception)]

\* if self._config.allow_anonymous: asked before any header is looked at
AnonymousBypassWithoutCredentials(hdr) == config.allow_anonymous /\ hdr = NoHeaders
AnonymousBypass(hdr) == config.allow_anonymous

\* a request arrives: the allow_anonymous bypass, else the loop starts
Receive(r, inputs) ==
    /\ req[r].pc = "idle"
    /\ served < MaxRequests
    /\ \E hdr \in inputs :
         LET q == [IdleRequest EXCEPT !.hdr = hdr]
         IN req' = [req EXCEPT ![r] =
                IF AnonymousBypass(hdr)
                THEN [q EXCEPT !.pc = "done", !.bypass = TRUE,
                               !.result = Returned(AnonymousIdentity)]
                ELSE Enter(q, 1)]
    /\ served' = served + 1
    /\ UNCHANGED <<config, clients, api_keys, jwks_cache, next_id, revoked>>

\* the response is sent: the slot is free for the next request
Respond(r) ==
    /\ req[r].pc = "done"
    /\ req' = [req EXCEPT ![r] = IdleRequest]
    /\ UNCHANGED <<config, clients, api_keys, jwks_cache, served, next_id, revoked>>

\* require_scope(scope): the checker, run on the Identity of the request
RequireScope(r, scope) ==
    /\ req[r].pc = "done"
    /\ req[r].result.kind = "identity"
    /\ req[r].check = NoCheck
    /\ LET identity == req[r].result.identity
       IN req' = [req EXCEPT ![r].check =
              [NoCheck EXCEPT !.dependency = "require_scope",
                              !.scope = scope,
                              !.response = IF ~HasScope(identity, scope)
                                           THEN MissingScope
                                           ELSE Returned(identity)]]
    /\ UNCHANGED <<config, clients, api_keys, jwks_cache, served, next_id, revoked>>

\* require_client(client_id): the checker, run on the Identity of the request
RequireClient(r, client_id) ==
    /\ req[r].pc = "done"
    /\ req[r].result.kind = "identity"
    /\ req[r].check = NoCheck
    /\ LET identity == req[r].result.identity
       IN req' = [req EXCEPT ![r].check =
              [NoCheck EXCEPT !.dependency = "require_client",
                              !.client_id = client_id,
                              !.response = IF ~CanAccessClient(identity, client_id)
                                           THEN AccessDenied
                                           ELSE Returned(identity)]]
    /\ UNCHANGED <<config, clients, api_keys, jwks_cache, served, next_id, revoked>>

\* a route asks identity.effective_client_id(requested_client_id)
FilterByClient(r, requested_client_id) ==
    /\ req[r].pc = "done"
    /\ req[r].result.kind = "identity"
    /\ req[r].check = NoCheck
    /\ LET identity == req[r].result.identity
       IN req' = [req EXCEPT ![r].check =
              [NoCheck EXCEPT !.dependency = "effective_client_id",
                              !.client_id = requested_client_id,
                              !.response = Returned(identity),
                              !.filter = EffectiveClientId(identity, requested_client_id)]]
    /\ UNCHANGED <<config, clients, api_keys, jwks_cache, served, next_id, revoked>>

\* a route builds the X-Payment-Required value of a 402 for item_count items
Encode(r, item_count) ==
    /\ req[r].check = NoCheck
    /\ req' = [req EXCEPT ![r].check =
              [NoCheck EXCEPT !.dependency = "encode_payment_requirements",
                              !.item_count = item_count,
                              !.encoded = EncodePaymentRequirements(config, item_count)]]
    /\ UNCHANGED <<config, clients, api_keys, jwks_cache, served, next_id, revoked>>

\* the route's response is sent
Forget(r) ==
    /\ req[r].check.dependency = "encode_payment_requirements"
    /\ req' = [req EXCEPT ![r].check = NoCheck]
    /\ UNCHANGED <<config, clients, api_keys, jwks_cache, served, next_id, revoked>>

----------------------------------------------------------------------------
(* ApiKeyProvider.authenticate *)

TheOne(rows) == CHOOSE x \in rows : TRUE

\* first segment: the header, then ApiKeyStore.validate_key, one transaction
\* that selects the active row by hash and sets its last_used; the UPDATE
\* and its commit can fail (database locked, read-only or full), which
\* raises sqlite3.OperationalError out of validate_key
ApiKeyValidate(r) ==
    /\ req[r].pc = "ak_validate"
    /\ \E written \in BOOLEAN :
         LET q == [req[r] EXCEPT !.saw_revoked = (req[r].hdr.api_key \in revoked)]
             raw_key == q.hdr.api_key
             rows == ValidateKeyRows(raw_key)
             validated == [TheOne(rows) EXCEPT !.last_used = served]
         IN IF raw_key = ""
            THEN /\ req' = [req EXCEPT ![r] = OnNone(q)]
                 /\ UNCHANGED api_keys
            ELSE IF rows = {}
            THEN /\ req' = [req EXCEPT ![r] = OnHTTPException(q, InvalidApiKey)]
                 /\ UNCHANGED api_keys
            ELSE IF ~written
            THEN /\ req' = [req EXCEPT ![r] = OnUnhandled(q, "sqlite3.OperationalError")]
                 /\ UNCHANGED api_keys
            ELSE /\ api_keys' = (api_keys \ rows) \cup {validated}
                 /\ req' = [req EXCEPT ![r] =
                              [q EXCEPT !.pc = "ak_client", !.key = {validated}]]
    /\ UNCHANGED <<config, clients, jwks_cache, served, next_id, revoked>>

\* Identity(client_id = validated.client_id, scopes = validated.scopes,
\* api_key_id = validated.key_id, api_key_name = validated.name)
ApiKeyIdentityAllScopes(validated) ==
    [NoIdentity EXCEPT !.client_id = validated.client_id,
                       !.auth_method = "api_key",
                       !.scopes = <<"all">>,
                       !.api_key_id = validated.key_id,
                       !.api_key_name = validated.name]
ApiKeyIdentity(validated) ==
    [NoIdentity EXCEPT !.client_id = validated.client_id,
                       !.auth_method = "api_key",
                       !.scopes = RowScopes(validated.scopes),
                       !.api_key_id = validated.key_id,
                       !.api_key_name = validated.name]

\* if not client or not client.is_active
OwnerRefusedOnlyMissing(client) == client = {}
OwnerRefused(client) == client = {} \/ ~TheOne(client).is_active

\* second segment: ClientStore.get_client of the key's owner
ApiKeyClient(r) ==
    /\ req[r].pc = "ak_client"
    /\ LET q == req[r]
           validated == TheOne(q.key)
           client == GetClient(validated.client_id)
       IN req' = [req EXCEPT ![r] =
              IF OwnerRefused(client)
              THEN OnHTTPException(q, InactiveClient)
              ELSE OnIdentity(q, ApiKeyIdentity(validated))]
    /\ UNCHANGED <<config, clients, api_keys, jwks_cache, served, next_id, revoked>>

----------------------------------------------------------------------------
(* JWTProvider.authenticate *)

\* text.split(): the words between the whitespace
SplitWhitespace(text) == SelectSeq(text, LAMBDA c : c # " ")

\* dict.get("roles", [])
GetRoles(realm_access) ==
    IF realm_access.value.present THEN realm_access.value.value ELSE <<>>

\* _extract_scopes
ExtractScopes(claims) ==
    IF claims.scope.present THEN SplitWhitespace(claims.scope.value)
    ELSE IF claims.realm_access.present THEN GetRoles(claims.realm_access)
    ELSE IF claims.scopes.present
         THEN IF claims.scopes.type = "list" THEN claims.scopes.value
              ELSE SplitWhitespace(claims.scopes.value)
    ELSE <<"all">>

JwtIdentity(client, claims) ==
    [NoIdentity EXCEPT !.client_id = client.client_id,
                       !.auth_method = "jwt",
                       !.scopes = ExtractScopes(claims),
                       !.subject = claims.sub,
                       !.email = claims.email,
                       !.issuer = claims.iss]

\* jwt.decode(token, jwks, audience = client.oidc_audience or default_audience,
\* issuer = issuer): the signature, then exp, then aud (a token without an
\* aud claim passes the audience check of the library)
JwtDecode(q, client) ==
    LET token == q.hdr.token
        audience == IF client.oidc_audience # None THEN client.oidc_audience
                    ELSE DefaultAudience
    IN IF token.sig = "bad" THEN OnHTTPException(q, TokenInvalid)
       ELSE IF token.sig = "expired" THEN OnHTTPException(q, TokenExpired)
       ELSE IF token.aud # None /\ token.aud # audience
            THEN OnHTTPException(q, TokenInvalid)
       ELSE OnIdentity(q, JwtIdentity(client, token))

\* the client is resolved: "if not client or not client.is_active", then
\* _get_jwks, which answers from the cache without suspending
JwtWithClientFetchFirst(q, found) ==
    IF q.hdr.token.iss \notin jwks_cache
    THEN [q EXCEPT !.client = found, !.pc = "jwt_discovery"]
    ELSE IF found = {} \/ ~TheOne(found).is_active
         THEN OnHTTPException(q, JwtClientNotFound)
         ELSE JwtDecode(q, TheOne(found))
JwtWithClient(q, found) ==
    IF found = {} \/ ~TheOne(found).is_active
    THEN OnHTTPException(q, JwtClientNotFound)
    ELSE IF q.hdr.token.iss \in jwks_cache
         THEN JwtDecode(q, TheOne(found))
         ELSE [q EXCEPT !.client = found, !.pc = "jwt_discovery"]

\* whether an issuer without a client of its own is refused
IssuerRefusedNever(issuer) == FALSE
IssuerRefused(issuer) == issuer \notin AllowedIssuers

\* first segment: the unverified claims and get_client_by_oidc_issuer
JwtIssuer(r) ==
    /\ req[r].pc = "jwt_issuer"
    /\ LET q == req[r]
           token == q.hdr.token
           found == GetClientByOidcIssuer(token.iss)
       IN req' = [req EXCEPT ![r] =
              IF token.form = "malformed" THEN OnHTTPException(q, TokenInvalid)
              ELSE IF token.iss = None THEN OnHTTPException(q, MissingIssuer)
              ELSE IF Cardinality(found) > 1 THEN OnUnhandled(q, "MultipleResultsFound")
              ELSE IF found = {}
                   THEN IF IssuerRefused(token.iss)
                        THEN OnHTTPException(q, UnknownIssuer)
                        ELSE IF token.aud # None
                             THEN [q EXCEPT !.pc = "jwt_audience"]
                             ELSE JwtWithClient(q, {})
              ELSE JwtWithClient(q, found)]
    /\ UNCHANGED <<config, clients, api_keys, jwks_cache, served, next_id, revoked>>

\* a global issuer: get_client_by_oidc_audience of the aud claim
JwtAudience(r) ==
    /\ req[r].pc = "jwt_audience"
    /\ LET q == req[r]
           found == GetClientByOidcAudience(q.hdr.token.aud)
       IN req' = [req EXCEPT ![r] =
              IF Cardinality(found) > 1 THEN OnUnhandled(q, "MultipleResultsFound")
              ELSE JwtWithClient(q, found)]
    /\ UNCHANGED <<config, clients, api_keys, jwks_cache, served, next_id, revoked>>

\* _get_jwks, cache miss: GET {issuer}/.well-known/openid-configuration;
\* raise_for_status and transport errors raise httpx errors, uncaught
JwtDiscovery(r) ==
    /\ req[r].pc = "jwt_discovery"
    /\ \E ok \in BOOLEAN :
         LET q == [req[r] EXCEPT !.fetches = @ + 1]
         IN req' = [req EXCEPT ![r] =
                IF ok THEN [q EXCEPT !.pc = "jwt_jwks"]
                ELSE OnUnhandled(q, "httpx.HTTPError")]
    /\ UNCHANGED <<config, clients, api_keys, jwks_cache, served, next_id, revoked>>

\* _get_jwks: GET jwks_uri, the cache write, then jwt.decode
JwtJwks(r) ==
    /\ req[r].pc = "jwt_jwks"
    /\ \E ok \in BOOLEAN :
         LET q == [req[r] EXCEPT !.fetches = @ + 1]
         IN IF ok
            THEN /\ jwks_cache' = jwks_cache \cup {q.hdr.token.iss}
                 /\ req' = [req EXCEPT ![r] = JwtDecode(q, TheOne(q.client))]
            ELSE /\ UNCHANGED jwks_cache
                 /\ req' = [req EXCEPT ![r] = OnUnhandled(q, "httpx.HTTPError")]
    /\ UNCHANGED <<config, clients, api_keys, served, next_id, revoked>>

----------------------------------------------------------------------------
(* X402Provider.authenticate *)

\* what the facilitator can answer to POST /verify, or that it cannot be reached
VerifyOutcomes ==
    {[kind |-> "valid", payer |-> NoAddr], [kind |-> "valid", payer |-> AddrMixed],
     [kind |-> "invalid", payer |-> NoAddr], [kind |-> "unreachable", payer |-> NoAddr]}

\* what the facilitator can answer to POST /settle, or that it cannot be reached
SettleOutcomes == {"success", "failure", "unreachable"}

\* _verify_payment: the response, or {"valid": False} on httpx.HTTPError
VerifyPayment(outcome) ==
    [kind |-> outcome.kind, valid |-> (outcome.kind = "valid"),
     payer |-> IF outcome.kind = "valid" THEN outcome.payer ELSE NoAddr]

\* if not verification.get("valid")
VerificationNeverRejected(verification) == FALSE
VerificationRejected(verification) == ~verification.valid

\* _settle_payment, then: if not settlement.get("success")
SettlementNeverRejected(outcome) == FALSE
SettlementRejected(outcome) == outcome # "success"

\* first segment: _decode_payment, then the awaited POST /verify
X402Verify(r) ==
    /\ req[r].pc = "x402_verify"
    /\ \E outcome \in VerifyOutcomes :
         LET q == req[r]
             payment == q.hdr.payment
             verification == VerifyPayment(outcome)
             called == [q EXCEPT !.fac = Append(@, "verify"),
                                 !.verification = verification]
         IN req' = [req EXCEPT ![r] =
                IF payment.form = "empty" THEN OnNone(q)
                ELSE IF payment.form = "malformed"
                     THEN OnHTTPException(q, PaymentPayloadMalformed)
                ELSE IF VerificationRejected(verification)
                     THEN OnHTTPException(called, PaymentVerificationFailed)
                ELSE [called EXCEPT !.pc = "x402_settle"]]
    /\ UNCHANGED <<config, clients, api_keys, jwks_cache, served, next_id, revoked>>

\* second segment: the awaited POST /settle, then the payer's address,
\* verification.get("payer") or payload.get("payer"), lower-cased
X402Settle(r) ==
    /\ req[r].pc = "x402_settle"
    /\ \E outcome \in SettleOutcomes :
         LET q == [req[r] EXCEPT !.fac = Append(@, "settle"),
                                 !.settlement = outcome]
             wallet_address == IF q.verification.payer # NoAddr
                               THEN q.verification.payer
                               ELSE q.hdr.payment.payer
         IN req' = [req EXCEPT ![r] =
                IF SettlementRejected(outcome)
                THEN OnHTTPException(q, PaymentSettlementFailed)
                ELSE IF wallet_address = NoAddr
                     THEN OnHTTPException(q, PayerUnknown)
                ELSE [q EXCEPT !.pc = "x402_wallet",
                               !.wallet = Lower(wallet_address)]]
    /\ UNCHANGED <<config, clients, api_keys, jwks_cache, served, next_id, revoked>>

X402Identity(client, wallet_address) ==
    [NoIdentity EXCEPT !.client_id = client.client_id,
                       !.auth_method = "x402",
                       !.scopes = <<"all">>,
                       !.wallet_address = wallet_address]

\* _get_or_create_ephemeral_client, first call: get_client_by_wallet
X402LookupWallet(r) ==
    /\ req[r].pc = "x402_wallet"
    /\ LET q == [req[r] EXCEPT !.lookups = @ + 1]
           found == GetClientByWallet(q.wallet)
       IN req' = [req EXCEPT ![r] =
              IF Cardinality(found) > 1 THEN OnUnhandled(q, "MultipleResultsFound")
              ELSE IF found # {} THEN OnIdentity(q, X402Identity(TheOne(found), q.wallet))
              ELSE [q EXCEPT !.pc = "x402_slug"]]
    /\ UNCHANGED <<config, clients, api_keys, jwks_cache, served, next_id, revoked>>

\* second call: get_client_by_slug of the deterministic slug
X402LookupSlug(r) ==
    /\ req[r].pc = "x402_slug"
    /\ LET q == [req[r] EXCEPT !.lookups = @ + 1]
           found == GetClientBySlug(WalletSlug(q.wallet))
       IN req' = [req EXCEPT ![r] =
              IF found # {} THEN OnIdentity(q, X402Identity(TheOne(found), q.wallet))
              ELSE [q EXCEPT !.pc = "x402_create"]]
    /\ UNCHANGED <<config, clients, api_keys, jwks_cache, served, next_id, revoked>>

\* third call: create_client; the commit raises IntegrityError when the slug
\* is taken
X402Create(r) ==
    /\ req[r].pc = "x402_create"
    /\ LET q == req[r]
           row == ClientRow(ClientId(next_id), WalletSlug(q.wallet), TRUE, None,
                            None, q.wallet, TRUE)
       IN IF SlugUniqueViolated(row)
          THEN /\ req' = [req EXCEPT ![r] = OnUnhandled(q, "IntegrityError")]
               /\ UNCHANGED <<clients, next_id>>
          ELSE /\ clients' = clients \cup {row}
               /\ next_id' = next_id + 1
               /\ req' = [req EXCEPT ![r] =
                            OnIdentity([q EXCEPT !.created = TRUE],
                                       X402Identity(row, q.wallet))]
    /\ UNCHANGED <<config, api_keys, jwks_cache, served, revoked>>

----------------------------------------------------------------------------
(* Operations of the operator API on the stores *)

\* the secrets _generate_key can draw, and the scope lists a key is created with
RawKeys == {"sk1", "sk2"}
ScopeLists == {<<"all">>, <<"read", "write">>, <<>>}

\* ApiKeyStore.create_key
CreateKey(raw_key, scopes, client_id) ==
    /\ Cardinality(api_keys) < MaxKeys
    /\ LET row == KeyRow(KeyId(next_id), HashKey(raw_key), client_id, "key",
                         JoinScopes(scopes), 0, TRUE)
       IN /\ ~KeyUniqueViolated(row)
          /\ api_keys' = api_keys \cup {row}
          /\ next_id' = next_id + 1
    /\ UNCHANGED <<config, clients, jwks_cache, req, served, revoked>>

\* ApiKeyStore.revoke_key: update api_keys set is_active = 0 where key_id = ?
RevokeKey(key_id) ==
    /\ \E k \in api_keys : k.key_id = key_id
    /\ api_keys' = {IF k.key_id = key_id THEN [k EXCEPT !.is_active = FALSE] ELSE k :
                      k \in api_keys}
    /\ revoked' = revoked \cup
                    {k.hashed_key[2] : k \in {x \in api_keys : x.key_id = key_id /\ x.is_active}}
    /\ UNCHANGED <<config, clients, jwks_cache, req, served, next_id>>

\* ClientStore.deactivate_client
DeactivateClient(client_id) ==
    /\ \E c \in clients : c.client_id = client_id /\ c.is_active
    /\ clients' = {IF c.client_id = client_id THEN [c EXCEPT !.is_active = FALSE] ELSE c :
                     c \in clients}
    /\ UNCHANGED <<config, api_keys, jwks_cache, req, served, next_id, revoked>>

----------------------------------------------------------------------------
(* The stores as the operator API has populated them *)

DefaultClient == ClientRow(ClientId(1), OperatorSlug("default"), TRUE, None, None, NoAddr, FALSE)
AcmeClient == ClientRow(ClientId(2), OperatorSlug("acme"), TRUE, IssAcme, AudAcme, NoAddr, FALSE)
GlobexClient == ClientRow(ClientId(3), OperatorSlug("globex"), TRUE, None, AudGlobex, NoAddr, FALSE)
InitechClient == ClientRow(ClientId(4), OperatorSlug("initech"), FALSE, None, None, NoAddr, FALSE)
\* a client with an issuer of its own and no oidc_audience
HooliClient == ClientRow(ClientId(9), OperatorSlug("hooli"), TRUE, IssHooli, None, NoAddr, FALSE)

AcmeKey == KeyRow(KeyId(5), HashKey("sk1"), ClientId(2), "acme-service", JoinScopes(<<"read", "write">>), 0, TRUE)
InitechKey == KeyRow(KeyId(6), HashKey("sk2"), ClientId(4), "initech-service", JoinScopes(<<"all">>), 0, TRUE)
\* a key whose client_id names no row of the clients table
OrphanKey == KeyRow(KeyId(11), HashKey("sk4"), ClientId(99), "orphan", JoinScopes(<<"all">>), 0, TRUE)
RevokedKey == KeyRow(KeyId(7), HashKey("sk3"), ClientId(2), "acme-old", JoinScopes(<<"all">>), 0, FALSE)

\* the ephemeral client an earlier payment from the wallet 0xab created
WalletClient == ClientRow(ClientId(8), WalletSlug(AddrLower), TRUE, None, None, AddrLower, TRUE)

FirstFreshId == 10

----------------------------------------------------------------------------
(* Spec: one request with any combination of credentials, under any        *)
(* configuration, against stores that earlier requests and the operator    *)
(* have populated                                                          *)

ApiKeyHeaders == {Absent, "", "sk1", "sk2", "sk3"}
Tokens ==
    {NoToken, MalformedToken}
    \cup {Jwt(iss, aud, sig) : iss \in {None, IssAcme, IssGlobal, IssEvil},
                               aud \in {None, AudGlobex},
                               sig \in {"ok", "expired", "bad"}}
Payments == {NoPayment, EmptyPayment, MalformedPayment, Payment(NoAddr), Payment(AddrMixed)}

AllInputs ==
    {Headers(k, t, p) : k \in ApiKeyHeaders, t \in Tokens, p \in Payments}

Init ==
    /\ config \in Configs
    /\ clients \in {{DefaultClient, AcmeClient, GlobexClient, InitechClient},
                    {DefaultClient, AcmeClient, GlobexClient, InitechClient, WalletClient}}
    /\ api_keys = {AcmeKey, InitechKey, RevokedKey}
    /\ jwks_cache \in {{}, {IssAcme, IssGlobal}}
    /\ req = [r \in Slots |-> IdleRequest]
    /\ served = 0
    /\ next_id = FirstFreshId
    /\ revoked = {"sk3"}

Next ==
    \/ Receive(1, AllInputs)
    \/ ApiKeyValidate(1)
    \/ ApiKeyClient(1)
    \/ JwtIssuer(1)
    \/ JwtAudience(1)
    \/ JwtDiscovery(1)
    \/ JwtJwks(1)
    \/ X402Verify(1)
    \/ X402Settle(1)
    \/ X402LookupWallet(1)
    \/ X402LookupSlug(1)
    \/ X402Create(1)

Spec == Init /\ [][Next]_vars

----------------------------------------------------------------------------
(* SpecKeys: the life of API keys. The operator creates and revokes keys    *)
(* between and during requests that present raw secrets; one of the two     *)
(* owners is an inactive client.                                            *)

KeyInputs == {Headers(k, NoToken, NoPayment) : k \in RawKeys}

InitKeys ==
    /\ config \in {c \in Configs : c.api_key_auth_enabled /\ ~c.jwt_auth_enabled
                                   /\ ~c.allow_anonymous}
    /\ clients = {AcmeClient, InitechClient}
    /\ api_keys = {}
    /\ jwks_cache = {}
    /\ req = [r \in Slots |-> IdleRequest]
    /\ served = 0
    /\ next_id = FirstFreshId
    /\ revoked = {}

NextKeys ==
    \/ Receive(1, KeyInputs)
    \/ ApiKeyValidate(1)
    \/ ApiKeyClient(1)
    \/ Respond(1)
    \/ \E raw_key \in RawKeys, scopes \in ScopeLists, c \in clients :
         CreateKey(raw_key, scopes, c.client_id)
    \/ \E k \in api_keys : RevokeKey(k.key_id)

SpecKeys == InitKeys /\ [][NextKeys]_vars

----------------------------------------------------------------------------
(* SpecPay: concurrent payments. Every request carries a payment proof;     *)
(* the segments of the requests interleave, and the operator may deactivate *)
(* an ephemeral client.                                                     *)

PayInputs ==
    {Headers(Absent, NoToken, Payment(a)) : a \in {AddrMixed, AddrLower, AddrOther}}

InitPay ==
    /\ config = [api_key_auth_enabled |-> TRUE, jwt_auth_enabled |-> FALSE,
                 x402_enabled |-> TRUE, allow_anonymous |-> FALSE]
    /\ clients = {DefaultClient}
    /\ api_keys = {}
    /\ jwks_cache = {}
    /\ req = [r \in Slots |-> IdleRequest]
    /\ served = 0
    /\ next_id = FirstFreshId
    /\ revoked = {}

NextPay ==
    \/ \E r \in Slots : Receive(r, PayInputs)
    \/ \E r \in Slots : X402Verify(r)
    \/ \E r \in Slots : X402Settle(r)
    \/ \E r \in Slots : X402LookupWallet(r)
    \/ \E r \in Slots : X402LookupSlug(r)
    \/ \E r \in Slots : X402Create(r)
    \/ \E c \in {x \in clients : x.ephemeral} : DeactivateClient(c.client_id)

SpecPay == InitPay /\ [][NextPay]_vars

----------------------------------------------------------------------------
(* SpecJwt: bearer tokens. Every request carries a token, with any issuer,  *)
(* audience, signature state and scope claims; the key sets are cached or   *)
(* fetched.                                                                 *)

\* a token with its scope claims, a subject and an email
JwtWith(iss, aud, sig, scope, realm_access) ==
    [Jwt(iss, aud, sig) EXCEPT !.scope = scope, !.realm_access = realm_access,
                               !.sub = "user-1", !.email = "user-1@example.com"]

JwtTokens ==
    {MalformedToken}
    \cup {JwtWith(iss, aud, sig, scope, realm_access) :
            iss \in {None, IssAcme, IssGlobal, IssEvil, IssHooli},
            aud \in {None, AudAcme, AudGlobex, DefaultAudience},
            sig \in {"ok", "expired", "bad"},
            scope \in {NoClaim, Str(<<"read">>)},
            realm_access \in {NoClaim, Dict(List(<<"admin">>))}}

JwtInputs == {Headers(Absent, t, NoPayment) : t \in JwtTokens}

InitJwt ==
    /\ config = [api_key_auth_enabled |-> TRUE, jwt_auth_enabled |-> TRUE,
                 x402_enabled |-> FALSE, allow_anonymous |-> FALSE]
    /\ clients = {DefaultClient, AcmeClient, GlobexClient, InitechClient, HooliClient}
    /\ api_keys = {}
    /\ jwks_cache \in {{}, {IssAcme, IssGlobal, IssHooli}}
    /\ req = [r \in Slots |-> IdleRequest]
    /\ served = 0
    /\ next_id = FirstFreshId
    /\ revoked = {}

NextJwt ==
    \/ Receive(1, JwtInputs)
    \/ JwtIssuer(1)
    \/ JwtAudience(1)
    \/ JwtDiscovery(1)
    \/ JwtJwks(1)
    \/ Respond(1)

SpecJwt == InitJwt /\ [][NextJwt]_vars

----------------------------------------------------------------------------
(* SpecOwners: API keys and their owning clients. Requests present the     *)
(* secrets of active keys while the operator deactivates clients; one key   *)
(* names a client that does not exist.                                      *)

OwnerInputs == {Headers(k, NoToken, NoPayment) : k \in {"sk1", "sk2", "sk4"}}

InitOwners ==
    /\ config = [api_key_auth_enabled |-> TRUE, jwt_auth_enabled |-> FALSE,
                 x402_enabled |-> FALSE, allow_anonymous |-> FALSE]
    /\ clients = {DefaultClient, AcmeClient, InitechClient}
    /\ api_keys = {AcmeKey, InitechKey, OrphanKey}
    /\ jwks_cache = {}
    /\ req = [r \in Slots |-> IdleRequest]
    /\ served = 0
    /\ next_id = FirstFreshId
    /\ revoked = {}

NextOwners ==
    \/ \E r \in Slots : Receive(r, OwnerInputs)
    \/ \E r \in Slots : ApiKeyValidate(r)
    \/ \E r \in Slots : ApiKeyClient(r)
    \/ \E r \in Slots : Respond(r)
    \/ \E c \in clients : DeactivateClient(c.client_id)

SpecOwners == InitOwners /\ [][NextOwners]_vars

----------------------------------------------------------------------------
(* SpecAccess: what routes do with an Identity. Requests authenticate with *)
(* keys of several owners and scope lists, or through the anonymous         *)
(* bypass, and a scope check, a tenant check or a tenant filter follows.    *)

AdminKey == KeyRow(KeyId(12), HashKey("sk5"), ClientId(1), "admin", JoinScopes(<<"all", "admin">>), 0, TRUE)
OperatorKey == KeyRow(KeyId(13), HashKey("sk6"), ClientId(3), "operator", JoinScopes(<<"admin">>), 0, TRUE)
ProjectKey == KeyRow(KeyId(14), HashKey("sk7"), ClientId(2), "project", JoinScopes(<<"project:proj_abc123">>), 0, TRUE)
AllKey == KeyRow(KeyId(15), HashKey("sk8"), ClientId(3), "all", JoinScopes(<<"all">>), 0, TRUE)

AccessInputs ==
    {Headers(k, NoToken, NoPayment) : k \in {"sk1", "sk5", "sk6", "sk7", "sk8"}}

\* the scopes routes require, and the clients they name
RequiredScopes == {"all", "admin", "read", "project:proj_abc123", "project:proj_other"}
NamedClients == {ClientId(1), ClientId(2), ClientId(3), AnonymousClientId}

InitAccess ==
    /\ config \in {c \in Configs : c.api_key_auth_enabled /\ ~c.jwt_auth_enabled
                                   /\ ~c.x402_enabled}
    /\ clients = {DefaultClient, AcmeClient, GlobexClient}
    /\ api_keys = {AcmeKey, AdminKey, OperatorKey, ProjectKey, AllKey}
    /\ jwks_cache = {}
    /\ req = [r \in Slots |-> IdleRequest]
    /\ served = 0
    /\ next_id = FirstFreshId
    /\ revoked = {}

NextAccess ==
    \/ Receive(1, AccessInputs)
    \/ ApiKeyValidate(1)
    \/ ApiKeyClient(1)
    \/ \E scope \in RequiredScopes : RequireScope(1, scope)
    \/ \E client_id \in NamedClients : RequireClient(1, client_id)
    \/ \E requested \in NamedClients \cup {NoClientId} : FilterByClient(1, requested)
    \/ Respond(1)

SpecAccess == InitAccess /\ [][NextAccess]_vars

----------------------------------------------------------------------------
(* SpecPrice: payment requirements for several price settings and item     *)
(* counts                                                                   *)

MaxItems == 10

BasePrices == {Dec(5, -2), Dec(50, -3), Dec(0, 0), Dec(1, 0)}
PerItemPrices == {Dec(1, -2), Dec(5, -3), Dec(5, -7)}

PriceConfigs ==
    {[api_key_auth_enabled |-> TRUE, jwt_auth_enabled |-> FALSE,
      x402_enabled |-> TRUE, allow_anonymous |-> FALSE,
      x402_network |-> network, x402_pay_to_address |-> recipient,
      x402_base_price |-> base, x402_per_item_price |-> per_item] :
        network \in {"base-sepolia", "base"}, recipient \in {"", "0xtest"},
        base \in BasePrices, per_item \in PerItemPrices}

InitPrice ==
    /\ config \in PriceConfigs
    /\ clients = {DefaultClient}
    /\ api_keys = {}
    /\ jwks_cache = {}
    /\ req = [r \in Slots |-> IdleRequest]
    /\ served = 0
    /\ next_id = FirstFreshId
    /\ revoked = {}

NextPrice ==
    \/ \E r \in Slots, item_count \in 0..MaxItems : Encode(r, item_count)
    \/ \E r \in Slots : Forget(r)

SpecPrice == InitPrice /\ [][NextPrice]_vars

----------------------------------------------------------------------------
(* SpecJwks: concurrent bearer tokens. The requests share the provider's    *)
(* key set cache and their awaited fetches interleave; the operator may     *)
(* deactivate a tenant.                                                     *)

JwksInputs ==
    {Headers(Absent, t, NoPayment) :
        t \in {Jwt(IssAcme, AudAcme, "ok"), Jwt(IssAcme, AudAcme, "bad"),
               Jwt(IssGlobal, AudGlobex, "ok"), Jwt(IssGlobal, None, "ok"),
               Jwt(IssEvil, None, "ok"), Jwt(None, None, "ok")}}

InitJwks ==
    /\ config = [api_key_auth_enabled |-> FALSE, jwt_auth_enabled |-> TRUE,
                 x402_enabled |-> FALSE, allow_anonymous |-> FALSE]
    /\ clients = {DefaultClient, AcmeClient, GlobexClient, InitechClient}
    /\ api_keys = {}
    /\ jwks_cache \in {{}, {IssGlobal}}
    /\ req = [r \in Slots |-> IdleRequest]
    /\ served = 0
    /\ next_id = FirstFreshId
    /\ revoked = {}

NextJwks ==
    \/ \E r \in Slots : Receive(r, JwksInputs)
    \/ \E r \in Slots : JwtIssuer(r)
    \/ \E r \in Slots : JwtAudience(r)
    \/ \E r \in Slots : JwtDiscovery(r)
    \/ \E r \in Slots : JwtJwks(r)
    \/ \E r \in Slots : Respond(r)
    \/ \E c \in {x \in clients : x.oidc_issuer # None \/ x.oidc_audience # None} :
         DeactivateClient(c.client_id)

SpecJwks == InitJwks /\ [][NextJwks]_vars

----------------------------------------------------------------------------
(* SpecScopes: the scope claims of bearer tokens. The tokens of one tenant  *)
(* carry any combination of the scope, realm_access and scopes claims.      *)

ScopeClaims == {NoClaim, Str(<<"read", " ", "write">>), Str(<<>>)}
RealmAccessClaims == {NoClaim, Dict(List(<<"admin">>)), Dict(NoClaim)}
ScopesClaims == {NoClaim, List(<<"billing">>), Str(<<"export", " ", " ", "import">>)}

ScopeTokens ==
    {[JwtWith(IssAcme, AudAcme, sig, scope, realm_access) EXCEPT !.scopes = scopes] :
        sig \in {"ok", "bad"}, scope \in ScopeClaims,
        realm_access \in RealmAccessClaims, scopes \in ScopesClaims}

ScopeInputs == {Headers(Absent, t, NoPayment) : t \in ScopeTokens}

InitScopes ==
    /\ config = [api_key_auth_enabled |-> FALSE, jwt_auth_enabled |-> TRUE,
                 x402_enabled |-> FALSE, allow_anonymous |-> FALSE]
    /\ clients = {DefaultClient, AcmeClient}
    /\ api_keys = {}
    /\ jwks_cache \in {{}, {IssAcme}}
    /\ req = [r \in Slots |-> IdleRequest]
    /\ served = 0
    /\ next_id = FirstFreshId
    /\ revoked = {}

NextScopes ==
    \/ Receive(1, ScopeInputs)
    \/ JwtIssuer(1)
    \/ JwtDiscovery(1)
    \/ JwtJwks(1)
    \/ Respond(1)

SpecScopes == InitScopes /\ [][NextScopes]_vars

----------------------------------------------------------------------------
(* Properties *)

Done(r) == req[r].pc = "done"

\* the order in which get_auth_chain is documented to register the providers
Rank(name) ==
    CASE name = "api_key" -> 1
      [] name = "jwt" -> 2
      [] name = "x402" -> 3

\* whether the configuration enables a provider
Enabled(name) ==
    CASE name = "api_key" -> config.api_key_auth_enabled
      [] name = "jwt" -> config.jwt_auth_enabled
      [] name = "x402" -> config.x402_enabled

\* the enabled providers whose can_handle matches the request in slot r
Matching(r) == {p \in ProviderNames : Enabled(p) /\ CanHandle(p, req[r].hdr)}

Failed(result) == result.kind \in {"error", "crash"}

\* C1: with allow_anonymous false the chain calls the matching providers
\* strictly in registration order (api_key, jwt, x402), skipping none; an
\* Identity it returns is the one the last provider called produced, every
\* provider called before it failed or returned None, no provider after it
\* was called, and a request authenticated by api_key or jwt caused no
\* facilitator call.
C1_FirstSuccessWins ==
    \A r \in Slots :
        LET q == req[r]
            n == Len(q.invoked)
        IN ~config.allow_anonymous =>
           /\ \A i, j \in 1..n : i < j => Rank(q.invoked[i]) < Rank(q.invoked[j])
           /\ \A i \in 1..n : q.invoked[i] \in Matching(r)
           /\ \A i \in 1..n : \A p \in Matching(r) :
                  Rank(p) < Rank(q.invoked[i]) => \E j \in 1..n : q.invoked[j] = p
           /\ \A i \in 1..(n - 1) : q.outcome[q.invoked[i]].kind \in {"error", "none"}
           /\ \A p \in ProviderNames :
                  (\A i \in 1..n : q.invoked[i] # p) => q.outcome[p] = Pending
           /\ \A p \in ProviderNames :
                  q.outcome[p].kind = "identity" =>
                      /\ q.pc = "done"
                      /\ q.result = q.outcome[p]
                      /\ q.result.identity.auth_method = p
                      /\ p \in {"api_key", "jwt"} => q.fac = <<>>
           /\ q.result.kind = "identity" =>
                  /\ n > 0
                  /\ q.result = q.outcome[q.invoked[n]]

\* C1 witness: a request carrying a valid API key and a payment proof, with
\* x402 enabled, was authenticated by the API key.
C1_Witness ==
    \E r \in Slots :
        /\ Done(r)
        /\ config.x402_enabled
        /\ req[r].hdr.payment.form = "payload"
        /\ req[r].hdr.token.form = "jwt"
        /\ req[r].result.kind = "identity"
        /\ req[r].result.identity.auth_method = "api_key"

\* C2: once a request has ended without an Identity, every enabled provider
\* whose can_handle matches it has been called and has finished: no failure
\* of an earlier provider keeps a later matching provider from being called.
C2_FailureNeverAborts ==
    \A r \in Slots :
        (Done(r) /\ ~req[r].bypass /\ req[r].result.kind # "identity") =>
            \A p \in Matching(r) : req[r].outcome[p] # Pending

\* the matching provider that failed last, in registration order
LastFailed(r) ==
    CHOOSE p \in ProviderNames :
        /\ Failed(req[r].outcome[p])
        /\ \A o \in ProviderNames : Failed(req[r].outcome[o]) => Rank(o) <= Rank(p)

\* C3: when a request ends without an Identity and at least one matching
\* provider failed, the error authenticate raises is exactly the error (status,
\* detail and headers) of the provider that failed last in registration
\* order, and is not the no-credentials challenge.
C3_LastErrorSurfaced ==
    \A r \in Slots :
        (/\ Done(r)
         /\ ~req[r].bypass
         /\ req[r].result.kind # "identity"
         /\ \E p \in ProviderNames : Failed(req[r].outcome[p])) =>
            /\ req[r].result = req[r].outcome[LastFailed(r)]
            /\ req[r].result.detail \notin
                 {"Authentication required",
                  "Payment required. Provide API key, JWT, or x402 payment."}

\* C3 witness: the API key provider and then the payment provider failed with
\* different errors, and the payment provider's error is the one raised.
C3_Witness ==
    \E r \in Slots :
        /\ Done(r)
        /\ req[r].outcome["api_key"].detail = "Invalid API key"
        /\ req[r].outcome["x402"].detail = "Payment verification failed"
        /\ req[r].result.status = 402
        /\ req[r].result.detail = "Payment verification failed"

\* C4: with allow_anonymous false a request that no provider matched gets no
\* Identity: it fails with 402 and an X-Payment-Required header when
\* x402_enabled, and with 401 "Authentication required" otherwise.
C4_NoCredentialsChallenge ==
    \A r \in Slots :
        (Done(r) /\ ~config.allow_anonymous /\ Matching(r) = {}) =>
            /\ req[r].result.kind = "error"
            /\ IF config.x402_enabled
               THEN /\ req[r].result.status = 402
                    /\ \E h \in req[r].result.headers : h[1] = "X-Payment-Required"
               ELSE /\ req[r].result.status = 401
                    /\ req[r].result.detail = "Authentication required"

\* C4 witness: a request without any credential header was answered 402 with
\* the payment challenge.
C4_Witness ==
    \E r \in Slots :
        /\ Done(r)
        /\ req[r].hdr = NoHeaders
        /\ ~config.allow_anonymous
        /\ config.x402_enabled
        /\ req[r].result.status = 402

\* C5: once revoke_key has run for a key, its secret stays inactive in the
\* key table whatever is created or revoked afterwards, and every request
\* whose validate_key runs after the revocation is refused by the API key
\* provider with 401 "Invalid API key" and gets no Identity.
C5_RevocationPermanent ==
    /\ \A raw_key \in revoked : \A k \in api_keys :
           k.hashed_key = HashKey(raw_key) => ~k.is_active
    /\ \A r \in Slots :
           req[r].saw_revoked =>
               /\ req[r].outcome["api_key"].status = 401
               /\ req[r].outcome["api_key"].detail = "Invalid API key"
               /\ req[r].key = {}
               /\ req[r].result.kind # "identity"

\* C5 witness: a key that had authenticated a request was revoked, and the
\* next request presenting it ended with 401 "Invalid API key".
C5_Witness ==
    \E r \in Slots :
        /\ Done(r)
        /\ req[r].saw_revoked
        /\ req[r].result.status = 401
        /\ req[r].result.detail = "Invalid API key"
        /\ \E k \in api_keys :
               /\ k.hashed_key = HashKey(req[r].hdr.api_key)
               /\ k.last_used > 0
               /\ ~k.is_active

\* the requests whose payment settled for the payer wallet
Settled(r, wallet) ==
    /\ Done(r)
    /\ req[r].settlement = "success"
    /\ req[r].wallet = wallet

\* C6: any two requests that paid from the same wallet, both verified and
\* settled, both end with an Identity, and both Identities carry the same
\* client_id.
C6_ConcurrentFirstPayments ==
    \A r1, r2 \in Slots : \A wallet \in {AddrLower, AddrOther} :
        (Settled(r1, wallet) /\ Settled(r2, wallet)) =>
            /\ req[r1].result.kind = "identity"
            /\ req[r2].result.kind = "identity"
            /\ req[r1].result.identity.client_id = req[r2].result.identity.client_id

\* in every state at most one client row carries a given wallet address
OneTenantPerWallet ==
    \A c1, c2 \in clients :
        (c1.wallet_address # NoAddr /\ c1.wallet_address = c2.wallet_address) => c1 = c2

\* C7: at most one tenant per wallet address exists in every reachable
\* state, and the get-or-create is atomic: when it comes to create the
\* tenant, what its lookups observed still holds, no tenant with the
\* wallet's address or slug exists.
C7_AtomicGetOrCreate ==
    /\ OneTenantPerWallet
    /\ \A r \in Slots :
           req[r].pc = "x402_create" =>
               \A c \in clients :
                   /\ c.wallet_address # req[r].wallet
                   /\ c.slug # WalletSlug(req[r].wallet)

\* C8: when verification was valid and settlement did not succeed, the
\* payment provider fails with 402 "Payment settlement failed", the request
\* gets no Identity, and the client store was neither read nor written for it.
C8_NoPartialPaymentSuccess ==
    \A r \in Slots :
        (req[r].verification.valid /\ req[r].settlement \in {"failure", "unreachable"}) =>
            /\ req[r].outcome["x402"].status = 402
            /\ req[r].outcome["x402"].detail = "Payment settlement failed"
            /\ req[r].result.kind # "identity"
            /\ req[r].lookups = 0
            /\ ~req[r].created
            /\ req[r].wallet = NoAddr

\* C8 witness: a payment verified, its settlement was refused, and the
\* request ended with the settlement error.
C8_Witness ==
    \E r \in Slots :
        /\ Done(r)
        /\ req[r].verification.valid
        /\ req[r].settlement = "failure"
        /\ req[r].result.detail = "Payment settlement failed"

\* C9: the facilitator is called verify first and settle at most once after
\* it; settle is called only when verify answered valid; when verify answered
\* invalid or could not be reached the provider fails with 402 "Payment
\* verification failed" and settle is never called.
C9_SettleOnlyAfterValidVerify ==
    \A r \in Slots :
        /\ req[r].fac \in {<<>>, <<"verify">>, <<"verify", "settle">>}
        /\ req[r].fac = <<"verify", "settle">> => req[r].verification.kind = "valid"
        /\ req[r].verification.kind \in {"invalid", "unreachable"} =>
               /\ req[r].fac = <<"verify">>
               /\ req[r].settlement = ""
               /\ req[r].outcome["x402"].status = 402
               /\ req[r].outcome["x402"].detail = "Payment verification failed"
               /\ req[r].result.kind # "identity"

\* C9 witness: the facilitator could not be reached for verify, the request
\* ended 402 with only the verify call made.
C9_Witness ==
    \E r \in Slots :
        /\ Done(r)
        /\ req[r].verification.kind = "unreachable"
        /\ req[r].fac = <<"verify">>
        /\ req[r].result.status = 402

\* a token whose issuer is neither a client's oidc_issuer nor a global issuer
FromUnknownIssuer(token) ==
    /\ token.form = "jwt"
    /\ token.iss # None
    /\ \A c \in clients : c.oidc_issuer # token.iss
    /\ ~(config.jwt_auth_enabled /\ token.iss = IssGlobal)

\* C10: a token from an issuer that is neither registered on a client nor on
\* the allow-list is refused by the JWT provider with 401 "Unknown token
\* issuer" as soon as the provider has run, without any JWKS fetch, and the
\* request never ends with an anonymous or JWT Identity.
C10_UnknownIssuerRejected ==
    \A r \in Slots :
        (/\ FromUnknownIssuer(req[r].hdr.token)
         /\ ~req[r].bypass
         /\ \E i \in DOMAIN req[r].invoked : req[r].invoked[i] = "jwt"
         /\ req[r].pc # "jwt_issuer") =>
            /\ req[r].outcome["jwt"].status = 401
            /\ req[r].outcome["jwt"].detail = "Unknown token issuer"
            /\ req[r].fetches = 0
            /\ req[r].result.kind = "identity" =>
                   req[r].result.identity.auth_method \notin {"anonymous", "jwt"}

\* C10 witness: a token of an unregistered issuer, with the audience of a
\* registered client, ended 401 "Unknown token issuer".
C10_Witness ==
    \E r \in Slots :
        /\ Done(r)
        /\ req[r].hdr.token.form = "jwt"
        /\ req[r].hdr.token.iss = IssEvil
        /\ req[r].hdr.token.aud = AudGlobex
        /\ req[r].result.status = 401
        /\ req[r].result.detail = "Unknown token issuer"

\* the audience jwt.decode is given for a client
ExpectedAudience(client) ==
    IF client.oidc_audience # None THEN client.oidc_audience ELSE "bom-agent-api"

\* the token of the request in slot r carries a good signature of its
\* issuer's key set, is not expired, and names its issuer
SignatureVerified(r) ==
    /\ req[r].hdr.token.form = "jwt"
    /\ req[r].hdr.token.sig = "ok"
    /\ req[r].hdr.token.iss \in jwks_cache

\* the Identity of the request in slot r is built from the token's claims
FromVerifiedClaims(r) ==
    LET token == req[r].hdr.token
        identity == req[r].outcome["jwt"].identity
    IN /\ identity.issuer = token.iss
       /\ identity.subject = token.sub
       /\ identity.email = token.email
       /\ identity.scopes =
            (IF token.scope.present THEN token.scope.value
             ELSE IF token.realm_access.present THEN token.realm_access.value.value
             ELSE <<"all">>)

\* a JWT Identity is returned only for a token with a verified signature and
\* issuer, built from its claims; an expired token fails 401 "Token expired"
\* and a bad signature 401 "Invalid token"
JwtSignatureChecked ==
    \A r \in Slots :
        /\ req[r].outcome["jwt"].kind = "identity" =>
               SignatureVerified(r) /\ FromVerifiedClaims(r)
        /\ req[r].outcome["jwt"].detail = "Token expired" =>
               req[r].hdr.token.sig = "expired"
        /\ (req[r].hdr.token.form = "jwt" /\ req[r].hdr.token.sig # "ok") =>
               req[r].outcome["jwt"].kind \in {"pending", "error", "crash"}

\* C11: the JWT provider returns an Identity only for a token whose
\* signature and issuer are verified against the issuer's key set and whose
\* audience is the audience of the resolved client (its oidc_audience, or
\* the default audience when it has none); the Identity is built from the
\* verified claims; expired tokens fail "Token expired".
C11_VerifiedBeforeIdentity ==
    /\ JwtSignatureChecked
    /\ \A r \in Slots :
           req[r].outcome["jwt"].kind = "identity" =>
               \E c \in clients :
                   /\ c.client_id = req[r].outcome["jwt"].identity.client_id
                   /\ req[r].hdr.token.aud = ExpectedAudience(c)

\* C12: a transport error on an outbound call of authentication makes the
\* calling provider fail with a typed 401 or 402 error: an unreachable
\* facilitator (verify or settle) gives 402, a failed discovery or JWKS fetch
\* leaves the JWT provider with an Identity or a 401, never with an
\* exception of another kind; no call is repeated, and a request that made
\* an outbound call never gets the anonymous Identity.
C12_TransportErrorIsAuthFailure ==
    \A r \in Slots :
        /\ (req[r].verification.kind = "unreachable" \/ req[r].settlement = "unreachable") =>
               /\ req[r].outcome["x402"].kind = "error"
               /\ req[r].outcome["x402"].status = 402
        /\ req[r].fetches > 0 =>
               /\ req[r].outcome["jwt"].kind \in {"pending", "identity", "error"}
               /\ req[r].outcome["jwt"].kind = "error" => req[r].outcome["jwt"].status = 401
        /\ Len(req[r].fac) <= 2
        /\ \A i, j \in DOMAIN req[r].fac : i # j => req[r].fac[i] # req[r].fac[j]
        /\ req[r].fetches <= 2
        /\ (req[r].fac # <<>> \/ req[r].fetches > 0) =>
               req[r].result.identity.auth_method # "anonymous"

\* what a request that was answered by the anonymous bypass looks like: the
\* fixed Identity, no provider asked or called, no store or service reached
AnsweredAnonymously(r) ==
    /\ req[r].result.kind = "identity"
    /\ req[r].result.identity.client_id = <<"anonymous", 0>>
    /\ req[r].result.identity.auth_method = "anonymous"
    /\ req[r].result.identity.scopes = <<"all">>
    /\ req[r].invoked = <<>>
    /\ \A p \in ProviderNames : req[r].outcome[p].kind = "pending"
    /\ req[r].fac = <<>>
    /\ req[r].fetches = 0
    /\ req[r].lookups = 0
    /\ ~req[r].created
    /\ req[r].key = {}

\* C13: with allow_anonymous true every request, whatever credentials it
\* carries, is answered at once with the fixed anonymous Identity, no
\* provider is called, and no step changes the client table, the key table,
\* the JWKS cache or the id source.
C13_AnonymousBypass ==
    /\ [](config.allow_anonymous =>
            \A r \in Slots :
                /\ req[r].pc \in {"idle", "done"}
                /\ Done(r) => AnsweredAnonymously(r))
    /\ [][config.allow_anonymous =>
            UNCHANGED <<clients, api_keys, jwks_cache, next_id, revoked>>]_vars

\* C13 witness: with allow_anonymous true a request carrying a valid API
\* key, a bearer token and a payment proof got the anonymous Identity.
C13_Witness ==
    \E r \in Slots :
        /\ config.allow_anonymous
        /\ Done(r)
        /\ req[r].hdr.api_key = "sk1"
        /\ req[r].hdr.token.form = "jwt"
        /\ req[r].hdr.payment.form = "payload"
        /\ req[r].result.identity.auth_method = "anonymous"

\* the key row whose hash is the hash of the secret the request presents
PresentedKey(r) == {k \in api_keys : k.hashed_key = <<"sha256", req[r].hdr.api_key>>}

\* the scope list a stored scopes text stands for
StoredScopes(identity, k) ==
    IF k.scopes = <<>> THEN identity.scopes = <<"all">>
    ELSE JoinScopes(identity.scopes) = k.scopes

OwnerGone(r) ==
    \A c \in clients : c.client_id = TheOne(req[r].key).client_id => ~c.is_active

C16_LastUsedBestEffort ==
    /\ [][\A r \in Slots :
              (/\ req[r].pc = "ak_validate"
               /\ req'[r].pc # "ak_validate"
               /\ \E k \in PresentedKey(r) : k.is_active) =>
                  /\ req'[r].pc = "ak_client"
                  /\ req'[r].outcome["api_key"] = Pending]_vars
    /\ [][\A r \in Slots :
              (/\ req[r].pc = "ak_client"
               /\ req'[r].pc # "ak_client"
               /\ ~OwnerGone(r)) =>
                  req'[r].outcome["api_key"].kind = "identity"]_vars

\* the address the facilitator or the payload names as payer
PayerOf(r) ==
    IF req[r].verification.payer # NoAddr THEN req[r].verification.payer
    ELSE req[r].hdr.payment.payer

\* the lower-case spelling of the modelled addresses
Lowered(address) == IF address = <<"0", "x", "A", "b">> THEN <<"0", "x", "a", "b">> ELSE address

\* the clients a wallet address owns
WalletClients(address) == {c \in clients : c.wallet_address = address}

\* C17: every client with a wallet is ephemeral and stores the address in
\* lower case; a client is created only for a wallet that has none, and is
\* never removed or given another id; every Identity of a payment is
\* {x402, ["all"], lower-cased payer address} and carries the client_id of
\* the one client of that address, so later payments from the address in
\* any casing get the client_id of the first.
C17_WalletClientReused ==
    /\ [](\A c \in clients :
              c.wallet_address # NoAddr =>
                  /\ c.ephemeral
                  /\ c.wallet_address = Lowered(c.wallet_address)
                  /\ WalletClients(c.wallet_address) = {c})
    /\ [](\A r \in Slots :
              req[r].outcome["x402"].kind = "identity" =>
                  LET identity == req[r].outcome["x402"].identity
                  IN /\ identity.auth_method = "x402"
                     /\ identity.scopes = <<"all">>
                     /\ identity.wallet_address = Lowered(PayerOf(r))
                     /\ \E c \in WalletClients(identity.wallet_address) :
                            c.client_id = identity.client_id
                     /\ \A c \in WalletClients(identity.wallet_address) :
                            c.client_id = identity.client_id)
    /\ [][\A d \in clients' :
              (\A c \in clients : c.client_id # d.client_id) =>
                  /\ d.wallet_address # NoAddr
                  /\ WalletClients(d.wallet_address) = {}]_vars
    /\ [][\A c \in clients :
              \E d \in clients' : /\ d.client_id = c.client_id
                                  /\ d.wallet_address = c.wallet_address]_vars

\* C17 witness: a first payment from 0xab created the client, and a payment
\* from 0xAb got the same client_id without creating a client.
C17_Witness ==
    \E r1, r2 \in Slots :
        /\ Done(r1) /\ Done(r2)
        /\ req[r1].created
        /\ PayerOf(r1) = <<"0", "x", "a", "b">>
        /\ ~req[r2].created
        /\ PayerOf(r2) = <<"0", "x", "A", "b">>
        /\ req[r2].result.kind = "identity"
        /\ req[r1].result.identity.client_id = req[r2].result.identity.client_id
        /\ Cardinality(WalletClients(<<"0", "x", "a", "b">>)) = 1

\* the chain answered request r with an Identity
Identified(r) == req[r].pc = "done" /\ req[r].result.kind = "identity"

\* "admin" is one of the identity's scopes
HoldsAdmin(identity) == \E i \in DOMAIN identity.scopes : identity.scopes[i] = "admin"

\* C18: every Identity may access its own client; it may access any other
\* client exactly when "admin" is one of its scopes (is_admin); and
\* require_client answers 403 exactly for the identities that may not access
\* the named client, returning the Identity otherwise.
C18_TenantIsolation ==
    \A r \in Slots : Identified(r) =>
        LET identity == req[r].result.identity
            check == req[r].check
        IN /\ IsAdmin(identity) <=> HoldsAdmin(identity)
           /\ CanAccessClient(identity, identity.client_id)
           /\ \A other \in NamedClients \ {identity.client_id} :
                  CanAccessClient(identity, other) <=> HoldsAdmin(identity)
           /\ check.dependency = "require_client" =>
                  IF HoldsAdmin(identity) \/ check.client_id = identity.client_id
                  THEN check.response = Returned(identity)
                  ELSE check.response = AccessDenied /\ AccessDenied.status = 403

\* an identity holding "all" but not "admin" was refused another tenant's client
C18_Witness ==
    /\ Identified(1)
    /\ req[1].result.identity.scopes = <<"all">>
    /\ req[1].result.identity.client_id = ClientId(3)
    /\ req[1].check.dependency = "require_client"
    /\ req[1].check.client_id = ClientId(2)
    /\ req[1].check.response = AccessDenied

\* C19: effective_client_id returns the requested value verbatim (None
\* included) for an identity holding "admin", and the identity's own client_id
\* for every other identity, whatever was requested.
C19_AdminFilterSymmetry ==
    \A r \in Slots : Identified(r) =>
        LET identity == req[r].result.identity
            check == req[r].check
        IN /\ \A requested \in NamedClients \cup {NoClientId} :
                  EffectiveClientId(identity, requested) =
                      IF HoldsAdmin(identity) THEN requested ELSE identity.client_id
           /\ check.dependency = "effective_client_id" =>
                  check.filter = IF HoldsAdmin(identity) THEN check.client_id
                                 ELSE identity.client_id

\* a tenant asked for another tenant's rows and was given its own client_id
C19_Witness ==
    /\ Identified(1)
    /\ ~HoldsAdmin(req[1].result.identity)
    /\ req[1].result.identity.client_id = ClientId(2)
    /\ req[1].check.dependency = "effective_client_id"
    /\ req[1].check.client_id = ClientId(3)
    /\ req[1].check.filter = ClientId(2)

\* scope s, or "all", is one of the identity's scopes
Holds(identity, s) == \E i \in DOMAIN identity.scopes : identity.scopes[i] \in {"all", s}

\* C20: has_scope(s) is true exactly when "all" or s is one of the identity's
\* scopes; require_scope(s) returns the Identity exactly then and answers 403
\* otherwise; an identity holding only "project:proj_abc123" has that scope
\* and neither "project:proj_other" nor "all".
C20_ScopeCheck ==
    \A r \in Slots : Identified(r) =>
        LET identity == req[r].result.identity
            check == req[r].check
        IN /\ \A s \in RequiredScopes : HasScope(identity, s) <=> Holds(identity, s)
           /\ check.dependency = "require_scope" =>
                  IF Holds(identity, check.scope)
                  THEN check.response = Returned(identity)
                  ELSE check.response = MissingScope /\ MissingScope.status = 403
           /\ identity.scopes = <<"project:proj_abc123">> =>
                  /\ HasScope(identity, "project:proj_abc123")
                  /\ ~HasScope(identity, "project:proj_other")
                  /\ ~HasScope(identity, "all")

\* the holder of only "project:proj_abc123" was refused "project:proj_other"
C20_Witness ==
    /\ Identified(1)
    /\ req[1].result.identity.scopes = <<"project:proj_abc123">>
    /\ req[1].check.dependency = "require_scope"
    /\ req[1].check.scope = "project:proj_other"
    /\ req[1].check.response = MissingScope

\* C21: every typed failure carries one of the status codes 401, 402, 403:
\* a provider's or the chain's failure carries 401 or 402, and a scope or
\* tenant check's failure carries 403.
C21_TypedFailureStatus ==
    \A r \in Slots :
        /\ \A p \in ProviderNames :
               req[r].outcome[p].kind = "error" => req[r].outcome[p].status \in {401, 402}
        /\ req[r].result.kind = "error" => req[r].result.status \in {401, 402}
        /\ req[r].check.response.kind = "error" => req[r].check.response.status = 403

\* the number a run of digit characters denotes
RECURSIVE DigitsValue(_)
DigitsValue(chars) ==
    IF chars = <<>> THEN 0
    ELSE 10 * DigitsValue(SubSeq(chars, 1, Len(chars) - 1))
         + (CHOOSE d \in 0..9 : DigitChar(d) = chars[Len(chars)])

\* where character c stands in chars (Len(chars) + 1 when nowhere)
Position(chars, c) ==
    IF \E i \in DOMAIN chars : chars[i] = c
    THEN CHOOSE i \in DOMAIN chars : chars[i] = c /\ \A j \in 1..(i - 1) : chars[j] # c
    ELSE Len(chars) + 1

\* the value of a decimal string such as "0.15" or "5E-7", in units of 10^-7
PriceUnits(chars) ==
    LET e == Position(chars, "E")
        mantissa == SubSeq(chars, 1, e - 1)
        dot == Position(mantissa, ".")
        whole == SubSeq(mantissa, 1, dot - 1)
        fraction == SubSeq(mantissa, dot + 1, Len(mantissa))
        exponent == IF e > Len(chars) THEN 0
                    ELSE IF chars[e + 1] = "-" THEN 0 - DigitsValue(SubSeq(chars, e + 2, Len(chars)))
                    ELSE DigitsValue(SubSeq(chars, e + 2, Len(chars)))
    IN DigitsValue(whole \o fraction) * Pow10(7 - Len(fraction) + exponent)

\* the value of a price setting, in units of 10^-7
SettingUnits(d) == d.coef * Pow10(7 + d.exp)

\* C22: encode_payment_requirements(config, item_count) decodes (base64, then
\* JSON) to the price base_price + per_item_price * item_count as a decimal
\* string, the configured network and recipient and asset "USDC"; equal
\* arguments give equal results and no store changes; base 0.05, per item
\* 0.01 and 10 items give price "0.15".
C22_PriceRoundTrip ==
    \A r \in Slots : req[r].check.dependency = "encode_payment_requirements" =>
        LET check == req[r].check
            decoded == JsonLoads(B64Decode(check.encoded))
        IN /\ PriceUnits(decoded["price"]) =
                  SettingUnits(config.x402_base_price)
                  + SettingUnits(config.x402_per_item_price) * check.item_count
           /\ decoded["network"] = config.x402_network
           /\ decoded["recipient"] = config.x402_pay_to_address
           /\ decoded["asset"] = "USDC"
           /\ (/\ config.x402_base_price = Dec(5, -2)
               /\ config.x402_per_item_price = Dec(1, -2)
               /\ check.item_count = 10) => decoded["price"] = <<"0", ".", "1", "5">>
           /\ \A other \in Slots :
                  (/\ req[other].check.dependency = "encode_payment_requirements"
                   /\ req[other].check.item_count = check.item_count)
                  => req[other].check.encoded = check.encoded
           /\ clients = {DefaultClient} /\ api_keys = {} /\ jwks_cache = {}
           /\ served = 0 /\ next_id = FirstFreshId /\ revoked = {}

\* the requirements for 10 items at base 0.05 and 0.01 per item were encoded
C22_Witness ==
    /\ config.x402_base_price = Dec(5, -2)
    /\ config.x402_per_item_price = Dec(1, -2)
    /\ req[1].check.dependency = "encode_payment_requirements"
    /\ req[1].check.item_count = 10
    /\ JsonLoads(B64Decode(req[1].check.encoded))["price"] = <<"0", ".", "1", "5">>

\* the JWT or x402 provider returns an Identity to request r in this step
Authenticates(r, p) ==
    /\ req[r].outcome[p].kind # "identity"
    /\ req'[r].outcome[p].kind = "identity"

\* C23: whenever the JWT or the x402 provider returns an Identity, its client
\* is an active client at that time; after deactivate_client(C) no token and
\* no payment authenticates as C.
C23_OnlyActiveClients ==
    [][\A r \in Slots : \A p \in {"jwt", "x402"} :
           Authenticates(r, p) =>
               \E c \in clients' :
                   /\ c.client_id = req'[r].outcome[p].identity.client_id
                   /\ c.is_active]_vars

\* C24: a key created with scope list S authenticates with exactly the scopes
\* S, the empty list included: the scopes of an API key Identity are the list
\* whose stored text is the scopes text of the validated key.
C24_ScopesRoundTrip ==
    \A r \in Slots : req[r].outcome["api_key"].kind = "identity" =>
        \A scopes \in ScopeLists :
            JoinScopes(scopes) = TheOne(req[r].key).scopes =>
                req[r].outcome["api_key"].identity.scopes = scopes

\* C25: a request whose settle call reported success gets an Identity from the
\* x402 provider: once the provider has finished, a settled payment never
\* belongs to a rejected request.
C25_SettledMeansIdentity ==
    \A r \in Slots :
        (req[r].settlement = "success" /\ req[r].outcome["x402"] # Pending) =>
            req[r].outcome["x402"].kind = "identity"

\* C26: a request that ends in a typed authentication failure has written
\* nothing: it has updated no key's last_used and created no client.
C26_FailureLeavesStores ==
    \A r \in Slots :
        (Done(r) /\ req[r].result.kind = "error") =>
            /\ req[r].key = {}
            /\ ~req[r].created

\* C27: require_scope("admin") rejects with 403 every identity whose scopes do
\* not contain "admin".
C27_AdminScopeOnlyAdmins ==
    \A r \in Slots :
        (/\ Identified(r)
         /\ req[r].check.dependency = "require_scope"
         /\ req[r].check.scope = "admin"
         /\ ~HoldsAdmin(req[r].result.identity)) =>
            req[r].check.response = MissingScope

\* request r performs a discovery or JWKS fetch in this step
Fetches(r) == req'[r].fetches > req[r].fetches

\* C28: the cache gains an issuer only in the step of a successful JWKS fetch
\* for it, which follows a successful discovery fetch; a failed fetch leaves
\* the cache as it was; no entry is ever removed; and once an issuer is cached
\* no request fetches for it (so its entry is not written again), however the
\* requests interleave.
C28_JwksCache ==
    [][/\ jwks_cache \subseteq jwks_cache'
       /\ \A iss \in jwks_cache' \ jwks_cache :
              \E r \in Slots : /\ req[r].pc = "jwt_jwks"
                               /\ req[r].hdr.token.iss = iss
                               /\ req[r].fetches = 1
                               /\ req'[r].fetches = 2
       /\ \A r \in Slots :
              (Fetches(r) /\ req'[r].outcome["jwt"].kind = "crash") =>
                  jwks_cache' = jwks_cache
       /\ \A r \in Slots :
              Fetches(r) => req[r].hdr.token.iss \notin jwks_cache]_vars

\* the words of a string claim, by position: those that are not whitespace
RECURSIVE WordsOf(_)
WordsOf(text) ==
    IF text = <<>> THEN <<>>
    ELSE IF text[1] = " " THEN WordsOf(Tail(text))
    ELSE <<text[1]>> \o WordsOf(Tail(text))

\* the scopes a custom "scopes" claim stands for
CustomScopes(claim) == IF claim.type = "list" THEN claim.value ELSE WordsOf(claim.value)

\* the token carries realm_access.roles
HasRoles(token) == token.realm_access.present /\ token.realm_access.value.present

\* what the code does: realm_access decides as soon as it is present, with
\* no scopes when it has no roles
ScopeClaimOrder ==
    \A r \in Slots : req[r].outcome["jwt"].kind = "identity" =>
        LET token == req[r].hdr.token
        IN req[r].outcome["jwt"].identity.scopes =
               IF token.scope.present THEN WordsOf(token.scope.value)
               ELSE IF token.realm_access.present
                    THEN IF HasRoles(token) THEN token.realm_access.value.value ELSE <<>>
               ELSE IF token.scopes.present THEN CustomScopes(token.scopes)
               ELSE <<"all">>

\* C29: the scopes of a JWT Identity are those of the first claim present in
\* the token among scope (split on whitespace), realm_access.roles and scopes
\* (a list as is, a string split on whitespace); a token with none of them
\* gets ["all"].
C29_FirstPresentClaim ==
    \A r \in Slots : req[r].outcome["jwt"].kind = "identity" =>
        LET token == req[r].hdr.token
        IN req[r].outcome["jwt"].identity.scopes =
               IF token.scope.present THEN WordsOf(token.scope.value)
               ELSE IF HasRoles(token) THEN token.realm_access.value.value
               ELSE IF token.scopes.present THEN CustomScopes(token.scopes)
               ELSE <<"all">>

\* the client the provider resolved for request r: an active client found by
\* the token's issuer, or by its aud claim when the issuer is allow-listed
ResolvedActive(r) ==
    LET token == req[r].hdr.token
    IN /\ req[r].client # {}
       /\ \A c \in req[r].client :
              /\ c.is_active
              /\ \/ c.oidc_issuer = token.iss
                 \/ /\ token.iss \in AllowedIssuers
                    /\ token.aud # None
                    /\ c.oidc_audience = token.aud

\* C30: the JWT provider fetches a discovery document or a key set only for a
\* request whose issuer resolved to an active client, and only such a request
\* adds its issuer to the cache; a request refused for a missing issuer, an
\* unknown issuer or an unresolved client has made no outbound request.
C30_FetchAfterClientResolved ==
    /\ [][\A r \in Slots : Fetches(r) => ResolvedActive(r)]_vars
    /\ [][\A iss \in jwks_cache' \ jwks_cache :
              \E r \in Slots : /\ Fetches(r)
                               /\ ResolvedActive(r)
                               /\ req[r].hdr.token.iss = iss]_vars
    /\ [](\A r \in Slots :
              req[r].outcome["jwt"] \in {MissingIssuer, UnknownIssuer, JwtClientNotFound} =>
                  req[r].fetches = 0)

\* a request of an unknown issuer was refused with nothing fetched or cached,
\* while another request fetched the key set of its resolved issuer
C30_Witness ==
    /\ req[1].outcome["jwt"] = UnknownIssuer
    /\ req[1].fetches = 0
    /\ req[2].outcome["jwt"].kind = "identity"
    /\ req[2].fetches = 2
    /\ jwks_cache = {req[2].hdr.token.iss}
====
